---- MODULE Spec2Model ----
(***************************************************************************)
(* Model of DriftClient (src/src/client.ts): the request transport with    *)
(* its per-request timeout timer, the five named operations, and the       *)
(* prompt assembly of buildPrompt.                                         *)
(*                                                                         *)
(* Strings whose characters matter (prompt text) are sequences of one-     *)
(* character strings; URLs and paths are sequences of segments.            *)
(***************************************************************************)
EXTENDS Integers, Sequences, FiniteSets, TLC

\* ------------------------------------------------------------------ bounds
MaxCalls == 2
MaxBranches == 2
MaxFacts == 2
MaxMsgs == 2

\* ------------------------------------------------------- string primitives
\* String.prototype.trim strips white space and line terminators at both ends.
IsSpace(c) == c \in {" ", "\n", "\t"}

RECURSIVE TrimStart(_)
TrimStart(s) ==
  IF s = <<>> THEN <<>>
  ELSE IF IsSpace(Head(s)) THEN TrimStart(Tail(s)) ELSE s

RECURSIVE TrimEnd(_)
TrimEnd(s) ==
  IF s = <<>> THEN <<>>
  ELSE IF IsSpace(s[Len(s)]) THEN TrimEnd(SubSeq(s, 1, Len(s) - 1)) ELSE s

Trim(s) == TrimEnd(TrimStart(s))

\* Array.prototype.join(sep) over an array of strings.
RECURSIVE Join(_, _)
Join(parts, sep) ==
  IF parts = <<>> THEN <<>>
  ELSE IF Len(parts) = 1 THEN parts[1]
  ELSE parts[1] \o sep \o Join(Tail(parts), sep)

\* Array.prototype.flatMap: concatenation of the mapped arrays.
RECURSIVE Flatten(_)
Flatten(ss) == IF ss = <<>> THEN <<>> ELSE Head(ss) \o Flatten(Tail(ss))

\* ------------------------------------------------------------ prompt text
DefaultSystemPrompt == <<"Y", "o", "u", " ", "a", "r", "e", " ", "a", " ", "h", "e", "l", "p", "f", "u", "l", " ", "a", "s", "s", "i", "s", "t", "a", "n", "t", ".">>
CurrentTopicLabel == <<"\n", "C", "u", "r", "r", "e", "n", "t", " ", "t", "o", "p", "i", "c", ":", " ">>
KnownFactsLabel == <<"\n", "K", "n", "o", "w", "n", " ", "f", "a", "c", "t", "s", ":", "\n">>
OtherTopicsLabel == <<"\n", "O", "t", "h", "e", "r", " ", "t", "o", "p", "i", "c", "s", " ", "d", "i", "s", "c", "u", "s", "s", "e", "d", ":", " ">>
FactBullet == <<"-", " ">>
FactColon == <<":", " ">>
NewLine == <<"\n">>
CommaSpace == <<",", " ">>

\* ------------------------------------------------- buildPrompt: the options
\* The second argument of buildPrompt: undefined, a bare string, or an
\* options object whose fields may each be left undefined.
Unset == "unset"
OptBool == {Unset, "true", "false"}
Templates == {"tplBar"}

NoOptions ==
  [form |-> "undefined", hasSystemPrompt |-> FALSE, systemPrompt |-> <<>>,
   includeOtherTopics |-> Unset, includeFacts |-> Unset,
   factsFromAllBranches |-> Unset, template |-> Unset]

StringOptions(s) ==
  [NoOptions EXCEPT !.form = "string", !.hasSystemPrompt = TRUE, !.systemPrompt = s]

\* A boolean field with a destructuring default.
WithDefault(v, dflt) == IF v = Unset THEN dflt ELSE v = "true"

\* The canonical option values after the legacy-string test and the defaults.
ResolveOptions(arg) ==
  [systemPrompt |-> IF arg.hasSystemPrompt THEN arg.systemPrompt ELSE DefaultSystemPrompt,
   includeOtherTopics |-> IF arg.form = "object" THEN WithDefault(arg.includeOtherTopics, TRUE) ELSE TRUE,
   includeFacts |-> IF arg.form = "object" THEN WithDefault(arg.includeFacts, TRUE) ELSE TRUE,
   factsFromAllBranches |-> IF arg.form = "object" THEN WithDefault(arg.factsFromAllBranches, FALSE) ELSE FALSE,
   template |-> IF arg.form = "object" THEN arg.template ELSE Unset]

\* ------------------------------------------------- buildPrompt: assembly
\* The value getContext resolved to: `present` is FALSE for undefined, and a
\* has* flag is FALSE when the property is missing from the object.
NoContext ==
  [present |-> FALSE, branchTopic |-> <<>>, hasMessages |-> FALSE, messages |-> <<>>,
   hasAllFacts |-> FALSE, allFacts |-> <<>>]

ProjectFact(f) == [key |-> f.key, value |-> f.value]

\* b.facts.map(f => ({ key, value }))
BranchFacts(b) == [k \in 1..Len(b.facts) |-> ProjectFact(b.facts[k])]

\* A filter that forgets factsFromAllBranches.
SelectedBranchesCurrentOnly(ctx, o) ==
  SelectSeq(ctx.allFacts, LAMBDA b : b.isCurrent)

\* The branches the filter of factsToInclude keeps.
SelectedBranches(ctx, o) ==
  SelectSeq(ctx.allFacts, LAMBDA b : o.factsFromAllBranches \/ b.isCurrent)

FactsToInclude(ctx, o) ==
  IF o.includeFacts
    THEN LET kept == SelectedBranches(ctx, o)
         IN Flatten([k \in 1..Len(kept) |-> BranchFacts(kept[k])])
    ELSE <<>>

BranchTopicOf(b) == b.branchTopic

OtherTopics(ctx, o) ==
  IF o.includeOtherTopics
    THEN LET others == SelectSeq(ctx.allFacts, LAMBDA b : ~b.isCurrent)
         IN [k \in 1..Len(others) |-> BranchTopicOf(others[k])]
    ELSE <<>>

FactLine(f) == FactBullet \o f.key \o FactColon \o f.value

FactsBlock(facts) == Join([k \in 1..Len(facts) |-> FactLine(facts[k])], NewLine)

\* The default template without the final trim.
DefaultSystemUntrimmed(ctx, o, facts, otherTopics) ==
  LET factsBlock == FactsBlock(facts)
      parts0 == <<o.systemPrompt, CurrentTopicLabel \o ctx.branchTopic>>
      parts1 == IF o.includeFacts /\ factsBlock # <<>>
                  THEN Append(parts0, KnownFactsLabel \o factsBlock)
                  ELSE parts0
      parts2 == IF o.includeOtherTopics /\ Len(otherTopics) > 0
                  THEN Append(parts1, OtherTopicsLabel \o Join(otherTopics, CommaSpace))
                  ELSE parts1
  IN Join(parts2, <<>>)

\* Lines 164-179: the default template.
DefaultSystem(ctx, o, facts, otherTopics) ==
  LET factsBlock == FactsBlock(facts)
      parts0 == <<o.systemPrompt, CurrentTopicLabel \o ctx.branchTopic>>
      parts1 == IF o.includeFacts /\ factsBlock # <<>>
                  THEN Append(parts0, KnownFactsLabel \o factsBlock)
                  ELSE parts0
      parts2 == IF o.includeOtherTopics /\ Len(otherTopics) > 0
                  THEN Append(parts1, OtherTopicsLabel \o Join(otherTopics, CommaSpace))
                  ELSE parts1
  IN Trim(Join(parts2, <<>>))

\* The caller's template: a function of the template context only. tplBar
\* renders every field of its argument between bars, padded with a blank at
\* both ends.
\* A template context whose systemPrompt already carries the topic line.
TemplateContextAugmented(ctx, o, facts, otherTopics) ==
  [systemPrompt |-> o.systemPrompt \o CurrentTopicLabel \o ctx.branchTopic,
   branchTopic |-> ctx.branchTopic, facts |-> facts, otherTopics |-> otherTopics]

TemplateContext(ctx, o, facts, otherTopics) ==
  [systemPrompt |-> o.systemPrompt, branchTopic |-> ctx.branchTopic,
   facts |-> facts, otherTopics |-> otherTopics]

ApplyTemplate(t, arg) ==
  <<" ">> \o arg.systemPrompt \o <<"|">> \o arg.branchTopic \o <<"|">>
    \o Join([k \in 1..Len(arg.facts) |-> arg.facts[k].key \o <<"=">> \o arg.facts[k].value], <<";">>)
    \o <<"|">> \o Join(arg.otherTopics, <<";">>) \o <<" ">>

ProjectMessage(m) == [role |-> m.role, content |-> m.content]

PromptMessages(ctx) == [k \in 1..Len(ctx.messages) |-> ProjectMessage(ctx.messages[k])]

\* Reading a property of undefined throws a TypeError: ctx itself, ctx.allFacts
\* before .filter, b.facts before .map, ctx.messages before .map.
AssemblyThrows(ctx, o) ==
  \/ ~ctx.present
  \/ (o.includeFacts \/ o.includeOtherTopics) /\ ~ctx.hasAllFacts
  \/ /\ o.includeFacts
     /\ \E k \in 1..Len(ctx.allFacts) :
          /\ o.factsFromAllBranches \/ ctx.allFacts[k].isCurrent
          /\ ~ctx.allFacts[k].hasFacts
  \/ ~ctx.hasMessages

NoPrompt ==
  [raised |-> FALSE, facts |-> <<>>, otherTopics |-> <<>>, usedTemplate |-> FALSE,
   tplArg |-> TemplateContext(NoContext, ResolveOptions(NoOptions), <<>>, <<>>),
   system |-> <<>>, messages |-> <<>>]

\* buildPrompt after getContext has resolved to ctx.
AssemblePrompt(ctx, arg) ==
  LET o == ResolveOptions(arg) IN
  IF AssemblyThrows(ctx, o) THEN [NoPrompt EXCEPT !.raised = TRUE]
  ELSE
    LET facts == FactsToInclude(ctx, o)
        otherTopics == OtherTopics(ctx, o)
        tplArg == TemplateContext(ctx, o, facts, otherTopics)
    IN [raised |-> FALSE, facts |-> facts, otherTopics |-> otherTopics,
        usedTemplate |-> o.template # Unset,
        tplArg |-> IF o.template # Unset THEN tplArg ELSE NoPrompt.tplArg,
        system |-> IF o.template # Unset
                     THEN ApplyTemplate(o.template, tplArg)
                     ELSE DefaultSystem(ctx, o, facts, otherTopics),
        messages |-> PromptMessages(ctx)]

\* ------------------------------------------------------------ the client
\* DriftConfig as the caller writes it. baseUrl is a sequence of segments; a
\* final "/" segment is a trailing slash. `hosted` is the flag the README
\* documents; the constructor does not read it.
NoApiKey == "<undefined>"
HostedDomain == "api.driftos.dev"
DefaultTimeout == 10000

\* String.prototype.replace(/\/$/, ''): drops one trailing slash.
StripTrailingSlash(url) ==
  IF url # <<>> /\ url[Len(url)] = "/" THEN SubSeq(url, 1, Len(url) - 1) ELSE url

\* new DriftClient(config): the three private fields.
NewClient(cfg) ==
  [baseUrl |-> StripTrailingSlash(cfg.baseUrl),
   apiKey |-> cfg.apiKey,
   timeout |-> IF cfg.hasTimeout THEN cfg.timeout ELSE DefaultTimeout]

\* ------------------------------------------------------ named operations
Ops == {"route", "getBranches", "getContext", "extractFacts", "getFacts", "buildPrompt"}

ApiPrefix == "/api/v1"

Method(op) == IF op \in {"route", "extractFacts"} THEN "POST" ELSE "GET"

\* The path each operation hands to request; buildPrompt goes through
\* getContext.
Path(op, id) ==
  CASE op = "route" -> <<ApiPrefix, "/drift/route">>
    [] op = "getBranches" -> <<ApiPrefix, "/drift/branches/", id>>
    [] op \in {"getContext", "buildPrompt"} -> <<ApiPrefix, "/context/", id>>
    [] op = "extractFacts" -> <<ApiPrefix, "/facts/", id, "/extract">>
    [] op = "getFacts" -> <<ApiPrefix, "/facts/", id>>

\* The request body: only route sends one; role defaults to 'user'.
NoSentBody == [present |-> FALSE, conversationId |-> "", role |-> ""]

SentBody(op, id, role) ==
  IF op = "route"
    THEN [present |-> TRUE, conversationId |-> id,
          role |-> IF role = Unset THEN "user" ELSE role]
    ELSE NoSentBody

Headers(client, sent) ==
  (IF sent.present THEN {"Content-Type: application/json"} ELSE {})
    \cup (IF client.apiKey \notin {NoApiKey, ""} THEN {"Authorization: Bearer"} ELSE {})

\* --------------------------------------------------- the response and errors
ResponseOk(status) == status >= 200 /\ status <= 299

\* Number to decimal digits, as a template literal prints response.status.
RECURSIVE Digits(_)
Digits(n) ==
  LET d == <<"0", "1", "2", "3", "4", "5", "6", "7", "8", "9">>[(n % 10) + 1]
  IN IF n < 10 THEN <<d>> ELSE Append(Digits(n \div 10), d)

RequestFailed(status) == <<"Request failed: ">> \o Digits(status)

NoResult == [kind |-> "none", message |-> <<>>, data |-> NoContext, prompt |-> NoPrompt]

Failure(kind, message) == [NoResult EXCEPT !.kind = kind, !.message = message]

\* The parsed body as response.json() yields it. json is "invalid" when the
\* text is not JSON, "null" and "scalar" for JSON values that are not objects;
\* for an object, success / error / data say which properties it has.
NoBody ==
  [json |-> "none", success |-> Unset, error |-> "absent", message |-> <<>>, data |-> NoContext]

\* An unwrap that reports a body it cannot parse as a failed request.
UnwrapParseAsError(status, body) ==
  IF body.json = "invalid"
    THEN Failure("Error", RequestFailed(status))
  ELSE IF body.json = "null"
    THEN Failure("TypeError", <<"Cannot read properties of null">>)
  ELSE IF ~ResponseOk(status) \/ body.success # "true"
    THEN Failure("Error", IF body.error = "message" THEN body.message ELSE RequestFailed(status))
  ELSE [NoResult EXCEPT !.kind = "ok", !.data = body.data]

\* Lines 47-53: parse, test status and success flag, throw or return data.
Unwrap(status, body) ==
  IF body.json = "invalid"
    THEN Failure("SyntaxError", <<"Unexpected token">>)
  ELSE IF body.json = "null"
    THEN Failure("TypeError", <<"Cannot read properties of null">>)
  ELSE IF ~ResponseOk(status) \/ body.success # "true"
    THEN Failure("Error", IF body.error = "message" THEN body.message ELSE RequestFailed(status))
  ELSE [NoResult EXCEPT !.kind = "ok", !.data = body.data]

\* What the operation does with the outcome of request: buildPrompt goes on
\* to assemble the prompt from the context, called here without options.
Outcome(op, res) ==
  IF op = "buildPrompt" /\ res.kind = "ok"
    THEN LET p == AssemblePrompt(res.data, NoOptions)
         IN IF p.raised THEN Failure("TypeError", <<"Cannot read properties of undefined">>)
            ELSE [res EXCEPT !.data = NoContext, !.prompt = p]
    ELSE res

\* ------------------------------------------------------------------ state
VARIABLES config, client, calls, netCalls, pctx, parg, pres, ppc

vars == <<config, client, calls, netCalls, pctx, parg, pres, ppc>>

CallIds == 1..MaxCalls

IdleCall ==
  [op |-> "none", pc |-> "idle", timer |-> "unset", aborted |-> FALSE, fetches |-> 0,
   method |-> "", path |-> <<>>, url |-> <<>>, headers |-> {}, sent |-> NoSentBody,
   status |-> 0, body |-> NoBody, result |-> NoResult]

\* clearTimeout: a timer that has fired stays fired.
ClearTimeout(timer) == IF timer = "pending" THEN "cleared" ELSE timer

\* clearTimeout after the return statement only, without a finally block.
TimerOnExitNoFinally(timer, res) == IF res.kind = "ok" THEN ClearTimeout(timer) ELSE timer

\* The finally block: the timer is cleared whatever the result.
TimerOnExit(timer, res) == ClearTimeout(timer)

\* The call leaves request with the given result.
Settle(c, res) ==
  [c EXCEPT !.pc = "done", !.timer = TimerOnExit(c.timer, res), !.result = Outcome(c.op, res)]

AbortError == Failure("AbortError", <<"This operation was aborted">>)

\* A request that issues its fetch again when the first one is aborted.
OnAbortRetry(c) ==
  IF c.fetches < 2
    THEN [c EXCEPT !.pc = "fetch", !.timer = "pending", !.aborted = FALSE,
                   !.fetches = @ + 1, !.status = 0]
    ELSE Settle(c, AbortError)

\* The rejection of an aborted fetch leaves request like any other error.
OnAbort(c) == Settle(c, AbortError)

\* One controller shared by every call in flight.
AbortTargetsShared(i) == {j \in CallIds : j = i \/ calls[j].pc \in {"fetch", "json"}}

\* The controllers a timer callback aborts: the one its closure captured.
AbortTargets(i) == {i}

\* Lines 26-45: new controller, timer armed, headers, fetch issued.
StartRequest(cl, op, id, role) ==
  LET sent == SentBody(op, id, role)
  IN [IdleCall EXCEPT !.op = op, !.pc = "fetch", !.timer = "pending", !.fetches = 1,
        !.method = Method(op), !.path = Path(op, id), !.url = cl.baseUrl \o Path(op, id),
        !.headers = Headers(cl, sent), !.sent = sent]

\* A caller invokes a named operation.
Invoke(i, op, id, role) ==
  /\ calls[i].pc = "idle"
  /\ calls' = [calls EXCEPT ![i] = StartRequest(client, op, id, role)]
  /\ netCalls' = netCalls + 1
  /\ UNCHANGED <<config, client, pctx, parg, pres, ppc>>

\* fetch resolves with the response head.
FetchResolves(i, status) ==
  /\ calls[i].pc = "fetch"
  /\ ~calls[i].aborted
  /\ calls' = [calls EXCEPT ![i].pc = "json", ![i].status = status]
  /\ UNCHANGED <<config, client, netCalls, pctx, parg, pres, ppc>>

\* response.json() settles; the rest of request runs to its end.
JsonSettles(i, body) ==
  /\ calls[i].pc = "json"
  /\ ~calls[i].aborted
  /\ calls' = [calls EXCEPT ![i] = Settle([calls[i] EXCEPT !.body = body],
                                          Unwrap(calls[i].status, body))]
  /\ UNCHANGED <<config, client, netCalls, pctx, parg, pres, ppc>>

\* The connection fails while the head or the body is awaited.
NetworkFails(i) ==
  /\ calls[i].pc \in {"fetch", "json"}
  /\ ~calls[i].aborted
  /\ calls' = [calls EXCEPT ![i] = Settle(calls[i], Failure("TypeError", <<"fetch failed">>))]
  /\ UNCHANGED <<config, client, netCalls, pctx, parg, pres, ppc>>

\* The timer of call i expires and its callback runs controller.abort().
TimerFires(i) ==
  /\ calls[i].timer = "pending"
  /\ calls' = [j \in CallIds |->
                 IF j = i THEN [calls[j] EXCEPT !.timer = "fired",
                                                !.aborted = @ \/ (j \in AbortTargets(i))]
                 ELSE IF j \in AbortTargets(i) THEN [calls[j] EXCEPT !.aborted = TRUE]
                 ELSE calls[j]]
  /\ UNCHANGED <<config, client, netCalls, pctx, parg, pres, ppc>>

\* The pending fetch or body read of an aborted call rejects.
AbortRejects(i) ==
  /\ calls[i].pc \in {"fetch", "json"}
  /\ calls[i].aborted
  /\ calls' = [calls EXCEPT ![i] = OnAbort(calls[i])]
  /\ UNCHANGED <<config, client, netCalls, pctx, parg, pres, ppc>>

\* ------------------------------------------------------------ input sets
SeqsUpTo(S, n) == UNION {[1..k -> S] : k \in 0..n}

TopicA == <<"a">>
TopicB == <<"b", " ">>
Topics == {TopicA, TopicB}

Fact1 == [id |-> "f1", key |-> <<"k">>, value |-> <<"v">>]
Fact2 == [id |-> "f2", key |-> <<"j">>, value |-> <<"w", " ">>]
FactPool == {Fact1, Fact2}

Msg1 == [id |-> "m1", role |-> "user", content |-> <<"h", "i">>]
Msg2 == [id |-> "m2", role |-> "assistant", content |-> <<"o", "k">>]
MsgPool == {Msg1, Msg2}

\* One BranchFactSet; hasFacts is FALSE when the facts property is missing.
BranchFactSets ==
  {[branchTopic |-> t, isCurrent |-> cur, hasFacts |-> TRUE, facts |-> fs] :
     t \in Topics, cur \in BOOLEAN, fs \in SeqsUpTo(FactPool, MaxFacts)}
  \cup {[branchTopic |-> t, isCurrent |-> cur, hasFacts |-> FALSE, facts |-> <<>>] :
          t \in Topics, cur \in BOOLEAN}

RECURSIVE TotalFacts(_)
TotalFacts(bs) == IF bs = <<>> THEN 0 ELSE Len(Head(bs).facts) + TotalFacts(Tail(bs))

\* allFacts values: at most MaxBranches branches holding at most MaxFacts
\* facts between them.
AllFactsChoices ==
  {bs \in SeqsUpTo(BranchFactSets, MaxBranches) : TotalFacts(bs) <= MaxFacts}

MessagesChoices == SeqsUpTo(MsgPool, MaxMsgs)

Context(topic, hasMessages, messages, hasAllFacts, allFacts) ==
  [present |-> TRUE, branchTopic |-> topic, hasMessages |-> hasMessages,
   messages |-> messages, hasAllFacts |-> hasAllFacts, allFacts |-> allFacts]

\* A well-formed context with one current and one other branch.
Ctx0 ==
  Context(TopicA, TRUE, <<Msg1, Msg2>>, TRUE,
          <<[branchTopic |-> TopicA, isCurrent |-> TRUE, hasFacts |-> TRUE, facts |-> <<Fact1>>],
            [branchTopic |-> TopicB, isCurrent |-> FALSE, hasFacts |-> TRUE, facts |-> <<>>]>>)

CtxNoAllFacts == Context(TopicA, TRUE, <<Msg1>>, FALSE, <<>>)

\* The contexts the assembler is run on: every allFacts value under fixed
\* messages, every messages value and topic under two fixed allFacts values,
\* and the partial ones (undefined, allFacts missing, messages missing).
Contexts ==
  {Context(TopicB, TRUE, <<Msg1, Msg2>>, TRUE, bs) : bs \in AllFactsChoices}
  \cup {Context(t, TRUE, ms, TRUE, bs) :
          t \in Topics, ms \in MessagesChoices, bs \in {<<>>, Ctx0.allFacts}}
  \cup {Context(t, FALSE, <<>>, TRUE, bs) : t \in Topics, bs \in {<<>>, Ctx0.allFacts}}
  \cup {NoContext, CtxNoAllFacts}

SystemPrompts == {<<>>, <<" ", "p">>}

FlagChoices ==
  [includeOtherTopics : {"true", "false"}, includeFacts : {"true", "false"},
   factsFromAllBranches : {"true", "false"}]
  \cup {[includeOtherTopics |-> Unset, includeFacts |-> Unset, factsFromAllBranches |-> Unset]}

ObjectOptions ==
  {[form |-> "object", hasSystemPrompt |-> sp.has, systemPrompt |-> sp.v,
    includeOtherTopics |-> f.includeOtherTopics, includeFacts |-> f.includeFacts,
    factsFromAllBranches |-> f.factsFromAllBranches, template |-> t] :
     sp \in {[has |-> FALSE, v |-> <<>>]} \cup {[has |-> TRUE, v |-> x] : x \in SystemPrompts},
     f \in FlagChoices, t \in {Unset} \cup Templates}

OptionArgs == {NoOptions} \cup {StringOptions(x) : x \in SystemPrompts} \cup ObjectOptions

LocalUrl == <<"http://", "localhost:3000">>
HostedUrl == <<"https://", HostedDomain>>
BaseUrls == {LocalUrl, HostedUrl, Append(HostedUrl, "/")}

Configs ==
  [baseUrl : BaseUrls, apiKey : {NoApiKey, "sk"}, hasTimeout : {FALSE}, timeout : {0},
   hosted : OptBool]

ConcurrentConfigs ==
  {[baseUrl |-> Append(LocalUrl, "/"), apiKey |-> "sk", hasTimeout |-> FALSE, timeout |-> 0,
    hosted |-> Unset]}

Ids == {"b1"}
Roles == {Unset, "assistant"}

Statuses == {200, 201, 404, 500}
ConcurrentStatuses == {200, 500}

InvalidBody == [NoBody EXCEPT !.json = "invalid"]
NullBody == [NoBody EXCEPT !.json = "null"]
ScalarBody == [NoBody EXCEPT !.json = "scalar"]
ErrorMessages == {<<"X">>, <<>>}

ObjectBodies ==
  {[json |-> "object", success |-> sc, error |-> e.error, message |-> e.message, data |-> d] :
     sc \in OptBool,
     e \in {[error |-> "absent", message |-> <<>>], [error |-> "noMessage", message |-> <<>>]}
            \cup {[error |-> "message", message |-> m] : m \in ErrorMessages},
     d \in {NoContext, Ctx0, CtxNoAllFacts}}

Bodies == {InvalidBody, NullBody, ScalarBody} \cup ObjectBodies

OkBody == [NoBody EXCEPT !.json = "object", !.success = "true", !.data = Ctx0]
FailBody == [NoBody EXCEPT !.json = "object", !.success = "false", !.error = "message",
                           !.message = <<"X">>]
ConcurrentBodies == {InvalidBody, OkBody, FailBody}

\* -------------------------------------------------------- specifications
PromptOff == pctx = NoContext /\ parg = NoOptions /\ pres = NoPrompt /\ ppc = "off"

\* Concurrent calls on one client.
Init ==
  /\ config \in ConcurrentConfigs
  /\ client = NewClient(config)
  /\ calls = [i \in CallIds |-> IdleCall]
  /\ netCalls = 0
  /\ PromptOff

Next ==
  \E i \in CallIds :
    \/ \E op \in Ops, id \in Ids : Invoke(i, op, id, Unset)
    \/ \E st \in ConcurrentStatuses : FetchResolves(i, st)
    \/ \E b \in ConcurrentBodies : JsonSettles(i, b)
    \/ NetworkFails(i)
    \/ TimerFires(i)
    \/ AbortRejects(i)

Spec == Init /\ [][Next]_vars

\* One call, over every configuration, status and body.
InitRequest ==
  /\ config \in Configs
  /\ client = NewClient(config)
  /\ calls = [i \in CallIds |-> IdleCall]
  /\ netCalls = 0
  /\ PromptOff

NextRequest ==
  \/ \E op \in Ops, id \in Ids, role \in Roles : Invoke(1, op, id, role)
  \/ \E st \in Statuses : FetchResolves(1, st)
  \/ \E b \in Bodies : JsonSettles(1, b)
  \/ NetworkFails(1)
  \/ TimerFires(1)
  \/ AbortRejects(1)

SpecRequest == InitRequest /\ [][NextRequest]_vars

\* buildPrompt from the point where getContext has resolved.
Assemble(arg) ==
  /\ ppc = "fetched"
  /\ parg' = arg
  /\ pres' = AssemblePrompt(pctx, arg)
  /\ ppc' = IF pres'.raised THEN "raised" ELSE "returned"
  /\ UNCHANGED <<config, client, calls, netCalls, pctx>>

InitPrompt ==
  /\ config \in ConcurrentConfigs
  /\ client = NewClient(config)
  /\ calls = [i \in CallIds |-> IdleCall]
  /\ netCalls = 0
  /\ pctx \in Contexts
  /\ parg = NoOptions
  /\ pres = NoPrompt
  /\ ppc = "fetched"

NextPrompt == \E arg \in OptionArgs : Assemble(arg)

SpecPrompt == InitPrompt /\ [][NextPrompt]_vars

\* ------------------------------------------------------------ properties
Contains(s, sub) ==
  \E k \in 0..(Len(s) - Len(sub)) : SubSeq(s, k + 1, k + Len(sub)) = sub

Started == {i \in CallIds : calls[i].pc # "idle"}
Done == {i \in CallIds : calls[i].pc = "done"}
InFlight == {i \in CallIds : calls[i].pc \in {"fetch", "json"}}
\* Calls that ended on what response.json() produced.
Answered == {i \in Done : calls[i].body.json # "none"}

IncludesHostedDomain(url) == \E k \in 1..Len(url) : url[k] = HostedDomain
HasApiPrefix(path) == path # <<>> /\ path[1] = ApiPrefix

\* C1: with the hosted override unset every operation requests a path without
\* the /api/v1 prefix when baseUrl contains api.driftos.dev and with it for any
\* other baseUrl; an explicit override decides the prefix whatever the baseUrl.
C1_PrefixFollowsHostedMode ==
  \A i \in Started :
    LET noPrefix == IF config.hosted = Unset
                      THEN IncludesHostedDomain(config.baseUrl)
                      ELSE config.hosted = "true"
    IN HasApiPrefix(calls[i].path) <=> ~noPrefix

\* C2: a call whose timer expires before its response is read fails with the
\* abort (timeout) error and its own controller is signalled; a call's
\* controller is signalled only by the expiry of that call's own timer.
C2_TimeoutAbortsOwnCallOnly ==
  \A i \in CallIds :
    /\ calls[i].timer = "fired" => calls[i].aborted
    /\ calls[i].aborted => calls[i].timer = "fired"
    /\ (calls[i].pc = "done" /\ calls[i].timer = "fired") => calls[i].result.kind = "AbortError"
    /\ calls[i].result.kind = "AbortError" => calls[i].timer = "fired"

C2_Witness ==
  \E i, j \in CallIds :
    /\ i # j
    /\ calls[i].pc = "done" /\ calls[i].timer = "fired" /\ calls[i].result.kind = "AbortError"
    /\ calls[j].pc \in {"fetch", "json"} /\ ~calls[j].aborted /\ calls[j].timer = "pending"

\* C3: on every exit path of request the timer armed at its start is
\* cancelled: a call that has returned or thrown has no pending timer, and
\* neither its timer nor its abort signal changes afterwards.
C3_TimerClearedOnEveryExit ==
  /\ [](\A i \in Done : calls[i].timer \in {"cleared", "fired"})
  /\ [][\A i \in Done : calls'[i].timer = calls[i].timer /\ calls'[i].aborted = calls[i].aborted]_vars

C3_Witness ==
  \E i, j \in Done :
    /\ calls[i].result.kind = "SyntaxError" /\ calls[i].timer = "cleared"
    /\ calls[j].result.kind = "Error" /\ calls[j].status = 500 /\ calls[j].timer = "cleared"

\* C4: when the body parses as JSON and the status is outside the success
\* range or success is false, request fails with the message of
\* envelope.error.message if present, else with one containing the status.
C4_ErrorMessageFromEnvelope ==
  \A i \in Answered :
    LET c == calls[i] IN
    (c.body.json # "invalid" /\ (~ResponseOk(c.status) \/ c.body.success = "false"))
      => /\ c.result.kind \notin {"ok", "none"}
         /\ IF c.body.error = "message"
              THEN c.result.message = c.body.message
              ELSE Contains(c.result.message, Digits(c.status))

LacksEnvelope(body) ==
  \/ body.json \in {"invalid", "null", "scalar"}
  \/ body.json = "object" /\ body.success = Unset

\* C5 as stated: a body that is not JSON or lacks the envelope shape fails
\* with an error kind of its own, neither that of a failed request nor that
\* of a timeout.
C5_ProtocolErrorDistinct ==
  \A i \in Answered :
    LacksEnvelope(calls[i].body) => calls[i].result.kind \notin {"ok", "Error", "AbortError"}

\* C5 as amended: only a body that is not valid JSON fails with a parse error
\* of its own kind; a JSON value other than null without a success field fails
\* with the same plain Error as success=false.
C5_ParseErrorOnlyForInvalidJson ==
  \A i \in Answered :
    LET c == calls[i] IN
    /\ c.body.json = "invalid" <=> c.result.kind = "SyntaxError"
    /\ (c.body.json \in {"scalar", "object"} /\ c.body.success = Unset)
         => (c.result.kind = "Error"
             /\ c.result.message = IF c.body.error = "message" THEN c.body.message
                                   ELSE RequestFailed(c.status))

C5_Witness ==
  \E i \in Answered :
    calls[i].body.json = "invalid" /\ calls[i].status = 200 /\ calls[i].result.kind = "SyntaxError"

\* C6: every invocation issues exactly one network call whatever its outcome;
\* no call is retried and no invocation reuses the fetch of another one.
C6_OneFetchPerInvocation ==
  /\ \A i \in CallIds : calls[i].fetches = IF calls[i].pc = "idle" THEN 0 ELSE 1
  /\ netCalls = Cardinality(Started)

C6_Witness ==
  \E i, j \in Done :
    /\ i # j
    /\ calls[i].op = "buildPrompt" /\ calls[j].op = "buildPrompt"
    /\ calls[i].url = calls[j].url
    /\ calls[i].result.kind = "ok" /\ calls[j].result.kind = "AbortError"
    /\ netCalls = 2

\* The resolved options of the buildPrompt call under way.
Opts == ResolveOptions(parg)

\* The facts of the branches allowed by `all`, branch after branch.
RECURSIVE ExpectedFacts(_, _)
ExpectedFacts(bs, all) ==
  IF bs = <<>> THEN <<>>
  ELSE (IF all \/ Head(bs).isCurrent
          THEN [k \in 1..Len(Head(bs).facts) |->
                  [key |-> Head(bs).facts[k].key, value |-> Head(bs).facts[k].value]]
          ELSE <<>>)
       \o ExpectedFacts(Tail(bs), all)

\* The topics of the branches that are not current, in order.
RECURSIVE ExpectedTopics(_)
ExpectedTopics(bs) ==
  IF bs = <<>> THEN <<>>
  ELSE (IF Head(bs).isCurrent THEN <<>> ELSE <<Head(bs).branchTopic>>)
       \o ExpectedTopics(Tail(bs))

\* C7: with includeFacts the fact list is the facts of the current branches,
\* or of every branch when factsFromAllBranches, in branch order then fact
\* order, nothing dropped, duplicated or reordered; without includeFacts it is
\* empty.
C7_FactSelection ==
  ppc = "returned" =>
    pres.facts = IF Opts.includeFacts
                   THEN ExpectedFacts(pctx.allFacts, Opts.factsFromAllBranches)
                   ELSE <<>>

C7_Witness ==
  /\ ppc = "returned"
  /\ Opts.includeFacts /\ Opts.factsFromAllBranches
  /\ Len(pctx.allFacts) = 2
  /\ ~pctx.allFacts[1].isCurrent /\ pctx.allFacts[1].facts = <<Fact2>>
  /\ pctx.allFacts[2].isCurrent /\ pctx.allFacts[2].facts = <<Fact1>>
  /\ pres.facts = <<[key |-> Fact2.key, value |-> Fact2.value],
                    [key |-> Fact1.key, value |-> Fact1.value]>>

\* C8: with a template, system is exactly what the template returns for the
\* bare systemPrompt, the branch topic, the selected facts and the other
\* topics, untrimmed and without default text; messages is the {role, content}
\* projection of context.messages in order.
C8_TemplateVerbatim ==
  (ppc = "returned" /\ parg.template # Unset) =>
    LET arg == [systemPrompt |-> IF parg.hasSystemPrompt THEN parg.systemPrompt
                                 ELSE DefaultSystemPrompt,
                branchTopic |-> pctx.branchTopic,
                facts |-> IF Opts.includeFacts
                            THEN ExpectedFacts(pctx.allFacts, Opts.factsFromAllBranches)
                            ELSE <<>>,
                otherTopics |-> IF Opts.includeOtherTopics
                                  THEN ExpectedTopics(pctx.allFacts) ELSE <<>>]
    IN /\ pres.usedTemplate
       /\ pres.tplArg = arg
       /\ pres.system = ApplyTemplate(parg.template, arg)
       /\ ~Contains(pres.system, <<"C", "u", "r", "r", "e", "n", "t", " ", "t", "o", "p", "i", "c">>)
       /\ Len(pres.messages) = Len(pctx.messages)
       /\ \A k \in 1..Len(pctx.messages) :
            pres.messages[k] = [role |-> pctx.messages[k].role,
                                content |-> pctx.messages[k].content]

C8_Witness ==
  /\ ppc = "returned" /\ parg.template # Unset
  /\ pctx.messages = <<Msg1, Msg2>>
  /\ Len(pres.tplArg.facts) = 2 /\ Len(pres.tplArg.otherTopics) = 1
  /\ Head(pres.system) = " " /\ pres.system[Len(pres.system)] = " "

KnownFactsText == <<"K", "n", "o", "w", "n", " ", "f", "a", "c", "t", "s">>
OtherTopicsText == <<"O", "t", "h", "e", "r", " ", "t", "o", "p", "i", "c", "s", " ", "d", "i", "s", "c", "u", "s", "s", "e", "d">>

\* One "\n- key: value" line per fact.
RECURSIVE FactLines(_)
FactLines(facts) ==
  IF facts = <<>> THEN <<>>
  ELSE <<"\n", "-", " ">> \o Head(facts).key \o <<":", " ">> \o Head(facts).value
       \o FactLines(Tail(facts))

RECURSIVE TopicList(_)
TopicList(topics) ==
  IF topics = <<>> THEN <<>>
  ELSE IF Len(topics) = 1 THEN Head(topics)
  ELSE Head(topics) \o <<",", " ">> \o TopicList(Tail(topics))

\* C9: without a template, system is the trimmed concatenation of the
\* systemPrompt, the current-topic line, a Known facts section iff includeFacts
\* and the selected facts are not empty, and an Other topics section iff
\* includeOtherTopics and some branch is not current (topics in order, not
\* deduplicated); includeFacts=false gives no Known facts section.
C9_DefaultTemplate ==
  (ppc = "returned" /\ parg.template = Unset) =>
    LET sp == IF parg.hasSystemPrompt THEN parg.systemPrompt ELSE DefaultSystemPrompt
        facts == IF Opts.includeFacts
                   THEN ExpectedFacts(pctx.allFacts, Opts.factsFromAllBranches) ELSE <<>>
        showFacts == Opts.includeFacts /\ facts # <<>>
        showTopics == Opts.includeOtherTopics
                        /\ \E k \in 1..Len(pctx.allFacts) : ~pctx.allFacts[k].isCurrent
    IN /\ pres.system =
            Trim(sp \o <<"\n">> \o <<"C", "u", "r", "r", "e", "n", "t", " ", "t", "o", "p", "i", "c", ":", " ">>
                 \o pctx.branchTopic
                 \o (IF showFacts THEN <<"\n">> \o KnownFactsText \o <<":">> \o FactLines(facts)
                     ELSE <<>>)
                 \o (IF showTopics
                       THEN <<"\n">> \o OtherTopicsText \o <<":", " ">>
                            \o TopicList(ExpectedTopics(pctx.allFacts))
                       ELSE <<>>))
       /\ Contains(pres.system, KnownFactsText) <=> showFacts
       /\ Contains(pres.system, OtherTopicsText) <=> showTopics
       /\ (pres.system # <<>> => ~IsSpace(Head(pres.system)) /\ ~IsSpace(pres.system[Len(pres.system)]))

C9_Witness ==
  /\ ppc = "returned" /\ parg.template = Unset
  /\ parg.includeFacts = "false" /\ parg.includeOtherTopics = "true"
  /\ parg.hasSystemPrompt /\ parg.systemPrompt = <<" ", "p">>
  /\ Len(pctx.allFacts) = 2
  /\ \A k \in 1..2 : ~pctx.allFacts[k].isCurrent /\ pctx.allFacts[k].branchTopic = TopicB
  /\ TotalFacts(pctx.allFacts) > 0
  /\ ~Contains(pres.system, KnownFactsText)
  /\ Contains(pres.system, OtherTopicsText \o <<":", " ", "b", " ", ",", " ", "b">>)
  /\ pres.system[Len(pres.system)] = "b"

\* C10: once the context is fetched, assembly never raises, whatever is
\* missing from the context; with no branch marked current the other topics
\* are those of every branch and the current-only fact list is empty.
C10_AssemblyNeverRaises ==
  ppc \in {"returned", "raised"} =>
    /\ ~pres.raised
    /\ (\A k \in 1..Len(pctx.allFacts) : ~pctx.allFacts[k].isCurrent) =>
         /\ Opts.includeOtherTopics =>
              pres.otherTopics = [k \in 1..Len(pctx.allFacts) |-> pctx.allFacts[k].branchTopic]
         /\ ~Opts.factsFromAllBranches => pres.facts = <<>>

====
